---- MODULE Spec2Model ----
(***************************************************************************)
(* A model of BuildSockPlugin.py: the local socket listener (SocketServer), *)
(* the per-connection reader (SocketConnection), the Timeout hand-off to    *)
(* the editor's main thread, and the JSON protocol processor                *)
(* (BuildSockPlugin.handle_json) with the view re-association pass.         *)
(***************************************************************************)
EXTENDS Integers, Sequences, FiniteSets, TLC

VARIABLES
    \* ---- BuildSockPlugin (main-thread state) ----
    path_to_project_map,    \* dict: project path -> Project
    window_to_manager_map,  \* set of windows that have a WindowManager
    view_to_manager_map,    \* dict: view -> ViewManager.issues
    view_order,             \* insertion order of view_to_manager_map
    next_oid,               \* identity of the next Issue object constructed
    last,                   \* what the last handle_json call did (history)
    handled,                \* number of handle_json calls so far (history)
    processed,              \* timeout ids whose handle_json task ran, in order (history)
    \* ---- SocketServer ----
    socket,                 \* self.socket: "none" | "open" | "closed"
    stop_event,             \* self.stop_event: "none" | "clear" | "set"
    accept_thread,          \* wait_for_connection_thread: "none"|"test"|"accept"|"done"
    connections,            \* self.connections: set of reader ids
    socket_file,            \* does the file at socket_path exist
    main_pc,                \* position of the main thread
    logged,                 \* faults printed so far: set of [who, flag]
    last_error,             \* the last exception an except branch of the two
                            \* thread bodies caught, and whether it was printed
                            \* (history)
    last_call,              \* the last start()/stop() call and what it did (history)
    \* ---- SocketConnection, one per peer ----
    reader,                 \* reader id -> record
    \* ---- Timeout / sublime.set_timeout ----
    timeout_queue,          \* tasks scheduled on the main thread, FIFO
    timeouts,               \* timeout id -> record (callback, weak_self)
    sTimeouts,              \* the global set of registered weak references
    cb_order                \* reader ids in the order their callback ran (history)

plugin_vars == <<path_to_project_map, window_to_manager_map, view_to_manager_map,
                 view_order, next_oid, last, handled, processed>>
server_vars == <<socket, stop_event, accept_thread, connections, socket_file,
                 main_pc, logged, reader>>
timeout_vars == <<timeout_queue, timeouts, sTimeouts, cb_order>>
call_vars == <<last_error, last_call>>
vars == <<plugin_vars, server_vars, timeout_vars, call_vars>>

----------------------------------------------------------------------------
(* Bounds of the model. *)

\* connections made by peers in one behaviour
MaxConns == 2
\* documents handed to handle_json in one behaviour of SpecDoc
MaxDocs == 2
\* documents handed to handle_json in one behaviour of SpecIssue
MaxIssueDocs == 1

----------------------------------------------------------------------------
(* Decoded JSON values, as json.loads produces them. Every value is tagged  *)
(* with its Python type; None is both JSON null and a missing dict key.     *)

None == [t |-> "null"]
JStr(s) == [t |-> "str", s |-> s]
JInt(n) == [t |-> "int", n |-> n]
JBool(b) == [t |-> "bool", b |-> b]
JFloat(x) == [t |-> "float", f |-> x]
JList(l) == [t |-> "list", l |-> l]
JDict(d) == [t |-> "dict", d |-> d]

\* isinstance(x, type); bool is a subclass of int in Python
IsInstance(x, type) ==
    CASE type = "str" -> x.t = "str"
      [] type = "int" -> x.t \in {"int", "bool"}
      [] type = "list" -> x.t = "list"
      [] type = "dict" -> x.t = "dict"

\* x.get(key) on a dict
Get(x, key) == IF key \in DOMAIN x.d THEN x.d[key] ELSE None

\* has x a .get attribute (only dicts do; anything else raises AttributeError)
HasGet(x) == x.t = "dict"

\* can x be a dict key (lists and dicts are unhashable: TypeError)
Hashable(x) == x.t \notin {"list", "dict"}

\* Python truthiness of a value
Truthy(x) ==
    CASE x.t = "null" -> FALSE
      [] x.t = "str" -> x.s # ""
      [] x.t = "int" -> x.n # 0
      [] x.t = "bool" -> x.b
      [] x.t = "float" -> TRUE
      [] x.t = "list" -> x.l # <<>>
      [] x.t = "dict" -> DOMAIN x.d # {}
      [] x.t = "set" -> x.e # {}

check_type(x, type, default) == IF IsInstance(x, type) THEN x ELSE default

\* os.path.join(a, b) of posixpath
path_join(a, b) ==
    IF Len(b) > 0 /\ SubSeq(b, 1, 1) = "/" THEN b
    ELSE IF a = "" \/ SubSeq(a, Len(a), Len(a)) = "/" THEN a \o b
    ELSE a \o "/" \o b

----------------------------------------------------------------------------
(* The editor the plugin runs in: its windows, their folders, its views.    *)

ProjectP == "/p"
ProjectQ == "/q"
Windows == {"w1", "w2"}
folders(w) == IF w = "w1" THEN {ProjectP} ELSE {"/other"}
Views == {"v1", "v2", "v3"}
\* view.file_name(); v3 is an untitled buffer
file_name(v) ==
    CASE v = "v1" -> JStr("/p/a.c")
      [] v = "v2" -> JStr("/p/b.c")
      [] v = "v3" -> None
\* the orders in which a Python set of views may be iterated
ViewOrders == {<<"v1", "v2", "v3">>, <<"v3", "v2", "v1">>}

\* spinners.json: spinner name -> frames
sSpinners == [dots |-> JList(<<JStr("."), JStr("..")>>)]

IssueType == [GENERIC |-> "GENERIC", INFO |-> "INFO", WARNING |-> "WARNING",
              ERROR |-> "ERROR"]

----------------------------------------------------------------------------
(* Project and Issue. An Issue defines neither __eq__ nor __hash__, so two  *)
(* Issue objects are equal only when they are the same object: oid is the   *)
(* object's identity.                                                       *)

Project(path) ==
    [path |-> path, issues |-> None, status_message |-> None,
     status_spinner |-> None]

\* an Issue whose constructor stores details and tooltip in each other's place
IssueSwapsDetails(oid, type, message, path, file, line, column, details, tooltip) ==
    [oid |-> oid, type |-> type, message |-> message, path |-> path,
     file |-> file, line |-> line, column |-> column, details |-> tooltip,
     tooltip |-> details]

Issue(oid, type, message, path, file, line, column, details, tooltip) ==
    [oid |-> oid, type |-> type, message |-> message, path |-> path,
     file |-> file, line |-> line, column |-> column, details |-> details,
     tooltip |-> tooltip]

\* a Python set of Issue objects
PySet(e) == [t |-> "set", e |-> e]

----------------------------------------------------------------------------
(* The state handle_json works on, threaded through its steps:              *)
(*   ppm, wmm, vmm, vorder : the three maps of BuildSockPlugin              *)
(*   oid                   : identity of the next Issue constructed         *)
(*   needs_view_update, should_clear : the locals of parse_root             *)
(*   raised                : "" or the exception that is propagating        *)
(*   updAll, renders, notes: calls of update_all_views, of                  *)
(*                           ViewManager.update_regions (by view) and of    *)
(*                           the window managers, in call order             *)

Raise(S, exc) == [S EXCEPT !.raised = exc]

\* ViewManager.update_regions: erases, then draws one region per issue;
\* "line - 1" raises TypeError for an issue whose line is None
update_regions(S, view) ==
    LET S1 == [S EXCEPT !.renders = Append(@, view)]
        issues == S.vmm[view]
    IN  IF ~Truthy(issues) THEN S1
        ELSE IF \E i \in issues.e : ~IsInstance(i.line, "int")
             THEN Raise(S1, "TypeError")
             ELSE S1

\* set_issues without its early return: renders also when the set is unchanged
set_issues_always(S, view, issues) ==
    update_regions([S EXCEPT !.vmm[view] = issues], view)

\* ViewManager.set_issues
set_issues(S, view, issues) ==
    IF S.vmm[view] = issues THEN S
    ELSE update_regions([S EXCEPT !.vmm[view] = issues], view)

\* the issues of every project, as update_views collects them
registry_issues(ppm) ==
    UNION {{ppm[p].issues.l[k] : k \in 1..Len(ppm[p].issues.l)} :
           p \in {q \in DOMAIN ppm : Truthy(ppm[q].issues)}}

\* a dict entry of path_to_issues_map: absent (None) when no issue has the path
issue_set(e) == IF e = {} THEN None ELSE PySet(e)

\* path_to_issues_map.get(path, None)
path_to_issues(ppm, path) ==
    issue_set({i \in registry_issues(ppm) : Truthy(i.path) /\ i.path = path})

\* "Update all managed views": the loop over view_to_manager_map.items()
RECURSIVE push_issues(_, _)
push_issues(S, order) ==
    IF order = <<>> \/ S.raised # "" THEN S
    ELSE push_issues(
            set_issues(S, Head(order),
                       path_to_issues(S.ppm, file_name(Head(order)))),
            Tail(order))

\* an update_views that creates no ViewManager
unmanaged_none(S, views) == {}

\* the views that get a ViewManager: file-backed, with issues, not managed yet
unmanaged_with_issues(S, views) ==
    {v \in views :
        /\ Truthy(file_name(v))
        /\ path_to_issues(S.ppm, file_name(v)) # None
        /\ v \notin DOMAIN S.vmm}

\* "Ensure a ViewManager exists for each view with issues"
add_managers(S, new, order) ==
    [S EXCEPT
       !.vmm = [v \in DOMAIN S.vmm \cup new |->
                  IF v \in DOMAIN S.vmm THEN S.vmm[v] ELSE None],
       !.vorder = @ \o SelectSeq(order, LAMBDA v : v \in new)]

update_managed(S) == push_issues(S, S.vorder)

\* BuildSockPlugin.update_views; order is the iteration order of the sets
update_views(S, views, order) ==
    update_managed(add_managers(S, unmanaged_with_issues(S, views), order))

\* BuildSockPlugin.update_all_views: every view of every window
update_all_views(S, order) ==
    update_views([S EXCEPT !.updAll = @ + 1], Views, order)

----------------------------------------------------------------------------
(* The parsers local to handle_json. A parser that can raise returns        *)
(* [exc |-> "" or the exception, ...].                                      *)

\* parse_status_spinner: a known spinner name, or a list of strings
parse_status_spinner(in_any) ==
    CASE in_any.t = "str" ->
            IF in_any.s \in DOMAIN sSpinners /\ Truthy(sSpinners[in_any.s])
            THEN sSpinners[in_any.s] ELSE None
      [] in_any.t = "list" ->
            IF \E k \in 1..Len(in_any.l) : ~IsInstance(in_any.l[k], "str")
            THEN None ELSE in_any
      [] OTHER -> None

\* parse_issue_type: the dict lookup with default GENERIC (in_str hashable)
parse_issue_type(in_str) ==
    CASE in_str = JStr("info") -> IssueType.INFO
      [] in_str = JStr("warning") -> IssueType.WARNING
      [] in_str = JStr("error") -> IssueType.ERROR
      [] OTHER -> IssueType.GENERIC

\* parse_issue: in_issue.get raises AttributeError unless in_issue is a
\* dict; the lookup of an unhashable type raises TypeError
parse_issue(in_issue, project_path, oid) ==
    IF ~HasGet(in_issue) THEN [exc |-> "AttributeError", issue |-> None]
    ELSE
    LET message == check_type(Get(in_issue, "message"), "str", JStr(""))
        file    == check_type(Get(in_issue, "file"), "str", None)
        line    == check_type(Get(in_issue, "line"), "int", None)
        column  == check_type(Get(in_issue, "column"), "int", None)
        details == check_type(Get(in_issue, "details"), "str", None)
        tooltip == check_type(Get(in_issue, "tooltip"), "str", None)
        path    == IF Truthy(file) THEN JStr(path_join(project_path, file.s))
                   ELSE None
    IN  IF ~Hashable(Get(in_issue, "type"))
        THEN [exc |-> "TypeError", issue |-> None]
        ELSE [exc |-> "",
              issue |-> Issue(oid, parse_issue_type(Get(in_issue, "type")),
                              message, path, file, line, column, details,
                              tooltip)]

\* parse_issues: the list comprehension over in_issues, from index k on;
\* r is parse_issue of element k
RECURSIVE parse_issues_from(_, _, _, _, _)
RECURSIVE parse_issues_next(_, _, _, _, _, _)
parse_issues_next(in_issues, project_path, oid, k, acc, r) ==
    IF r.exc # "" THEN [exc |-> r.exc, l |-> acc, oid |-> oid]
    ELSE parse_issues_from(in_issues, project_path, oid + 1, k + 1,
                           Append(acc, r.issue))

parse_issues_from(in_issues, project_path, oid, k, acc) ==
    IF k > Len(in_issues) THEN [exc |-> "", l |-> acc, oid |-> oid]
    ELSE parse_issues_next(in_issues, project_path, oid, k, acc,
                           parse_issue(in_issues[k], project_path, oid))

parse_issues(in_issues, project_path, oid) ==
    parse_issues_from(in_issues, project_path, oid, 1, <<>>)

\* "for m in managers: m.<call>(...)"
notify(S, call, managers) ==
    IF managers = {} THEN S
    ELSE [S EXCEPT !.notes = Append(@, <<call, managers>>)]

\* show-issues, given r = parse_issues(...): replace project.issues
show_issues(S, r, project_path, managers) ==
    IF r.exc # "" THEN Raise([S EXCEPT !.oid = r.oid], r.exc)
    ELSE notify([S EXCEPT !.ppm[project_path].issues = JList(r.l),
                          !.oid = r.oid,
                          !.needs_view_update = TRUE],
                "show_issues", managers)

\* hide-issues
hide_issues(S, project_path, managers) ==
    notify([S EXCEPT !.ppm[project_path].issues = None,
                     !.needs_view_update = TRUE],
           "hide_issues", managers)

\* show-status
show_status(S, in_command, project_path, managers) ==
    notify([S EXCEPT
              !.ppm[project_path].status_message =
                  check_type(Get(in_command, "message"), "str", None),
              !.ppm[project_path].status_spinner =
                  parse_status_spinner(Get(in_command, "spinner"))],
           "show_status", managers)

\* hide-status
hide_status(S, project_path, managers) ==
    notify([S EXCEPT !.ppm[project_path].status_message = None,
                     !.ppm[project_path].status_spinner = None],
           "hide_status", managers)

\* the if/elif chain on command_type
dispatch(S, in_command, command_type, project_path, managers) ==
    CASE command_type = JStr("show-issues") ->
            show_issues(S,
                        parse_issues(check_type(Get(in_command, "issues"),
                                                "list", JList(<<>>)).l,
                                     project_path, S.oid),
                        project_path, managers)
      [] command_type = JStr("hide-issues") ->
            hide_issues(S, project_path, managers)
      [] command_type = JStr("show-status") ->
            show_status(S, in_command, project_path, managers)
      [] command_type = JStr("hide-status") ->
            hide_status(S, project_path, managers)
      [] command_type = JStr("clear") ->
            [S EXCEPT !.should_clear = TRUE]
      [] OTHER -> S

\* an iteration that passes over a command that is not a dict
apply_command_skip_bad(S, in_command, project_path, managers) ==
    IF ~HasGet(in_command) THEN S
    ELSE dispatch(S, in_command,
                  check_type(Get(in_command, "command"), "str", None),
                  project_path, managers)

\* one iteration of "for in_command in in_commands": in_command.get raises
\* AttributeError unless in_command is a dict
apply_command(S, in_command, project_path, managers) ==
    IF ~HasGet(in_command) THEN Raise(S, "AttributeError")
    ELSE dispatch(S, in_command,
                  check_type(Get(in_command, "command"), "str", None),
                  project_path, managers)

\* a loop that applies the commands from the last to the first
RECURSIVE run_commands_backwards(_, _, _, _)
run_commands_backwards(S, in_commands, project_path, managers) ==
    IF in_commands = <<>> \/ S.raised # "" THEN S
    ELSE run_commands_backwards(
            apply_command(S, in_commands[Len(in_commands)], project_path,
                          managers),
            SubSeq(in_commands, 1, Len(in_commands) - 1), project_path,
            managers)

\* the loop over in_commands; an exception ends it
RECURSIVE run_commands(_, _, _, _)
run_commands(S, in_commands, project_path, managers) ==
    IF in_commands = <<>> \/ S.raised # "" THEN S
    ELSE run_commands(apply_command(S, Head(in_commands), project_path, managers),
                      Tail(in_commands), project_path, managers)

\* a clear that empties the whole registry
delete_every_project(S, project_path) ==
    IF S.raised # "" THEN S ELSE [S EXCEPT !.ppm = <<>>]

\* "del self.path_to_project_map[project_path]", reached unless
\* update_all_views raised
delete_project(S, project_path) ==
    IF S.raised # "" THEN S
    ELSE [S EXCEPT !.ppm = [p \in DOMAIN @ \ {project_path} |-> @[p]]]

\* the body of "if should_clear:": destroy the matched window managers,
\* drop the project's issues, re-associate, delete the project
clear_project(S, project_path, managers, order) ==
    delete_project(
        update_all_views(
            [notify([S EXCEPT !.wmm = @ \ managers], "destroy", managers)
               EXCEPT !.ppm[project_path].issues = None],
            order),
        project_path)

\* "if should_clear: ..."
clear_if_asked(S, project_path, managers, order) ==
    IF S.raised = "" /\ S.should_clear
    THEN clear_project(S, project_path, managers, order) ELSE S

\* "if needs_view_update: self.update_all_views()"
final_view_update(S, order) ==
    IF S.raised = "" /\ S.needs_view_update THEN update_all_views(S, order)
    ELSE S

\* the project of the document: looked up, or created and registered
with_project(S, p) ==
    IF p \in DOMAIN S.ppm THEN S
    ELSE [S EXCEPT !.ppm = [q \in DOMAIN @ \cup {p} |->
                              IF q = p THEN Project(p) ELSE @[q]]]

\* the windows one of whose folders is the project path
matched_windows(p) == {w \in Windows : p \in folders(w)}

\* get_window_manager for each matched window: created when missing
with_managers(S, managers) == [S EXCEPT !.wmm = @ \cup managers]

\* parse_root once project_path is a string
parse_project(S, p, in_commands, managers, order) ==
    final_view_update(
        clear_if_asked(
            run_commands(with_managers(with_project(S, p), managers),
                         in_commands, p, managers),
            p, managers, order),
        order)

\* a parse_root that falls back to a project when the document names none
parse_checked_any_project(S, project_path, in_commands, order) ==
    parse_project(S, IF project_path = None THEN ProjectP ELSE project_path.s,
                  in_commands.l,
                  matched_windows(IF project_path = None THEN ProjectP
                                  ELSE project_path.s),
                  order)

\* parse_root, given its two check_type results
parse_checked(S, project_path, in_commands, order) ==
    IF project_path = None THEN S
    ELSE parse_project(S, project_path.s, in_commands.l,
                       matched_windows(project_path.s), order)

\* parse_root
parse_root(S, in_root, order) ==
    parse_checked(S, check_type(Get(in_root, "project"), "str", None),
                  check_type(Get(in_root, "commands"), "list", JList(<<>>)),
                  order)

\* an except clause that names AttributeError only
CaughtAttributeErrorOnly == {"AttributeError"}

\* the exceptions "except Exception" catches: every exception the parsers
\* and managers raise is a subclass of Exception
CaughtByHandleJson == {"AttributeError", "TypeError"}

\* the state handle_json starts from: the plugin's maps, fresh locals
Enter(ppm, wmm, vmm, vorder, oid) ==
    [ppm |-> ppm, wmm |-> wmm, vmm |-> vmm, vorder |-> vorder, oid |-> oid,
     needs_view_update |-> FALSE, should_clear |-> FALSE, raised |-> "",
     updAll |-> 0, renders |-> <<>>, notes |-> <<>>, escaped |-> FALSE]

\* BuildSockPlugin.handle_json: parse_root inside try/except Exception
\* the try/except around parse_root: an exception it does not catch escapes
try_except(R) ==
    [R EXCEPT !.escaped = (R.raised # "" /\ R.raised \notin CaughtByHandleJson)]

handle_json(S, in_json, order) ==
    try_except(parse_root(S, check_type(in_json, "dict", JDict(<<>>)), order))

----------------------------------------------------------------------------
(* The documents peers send.                                                *)

Cmd(name) == JDict([command |-> JStr(name)])
ShowIssues(in_issues) ==
    JDict([command |-> JStr("show-issues"), issues |-> in_issues])
Doc(project, in_commands) ==
    JDict([project |-> project, commands |-> JList(in_commands)])

IssueA ==
    JDict([type |-> JStr("error"), message |-> JStr("m1"), file |-> JStr("a.c"),
           line |-> JInt(1), column |-> JInt(2)])
IssueB ==
    JDict([type |-> JStr("warning"), message |-> JStr("m2"), file |-> JStr("b.c"),
           line |-> JInt(3), details |-> JStr("d")])
\* line is optional: a located issue without a line
IssueNoLine == JDict([type |-> JStr("info"), message |-> JStr("m3"),
                      file |-> JStr("a.c")])
\* an absolute file: os.path.join drops the project path
IssueAbs == JDict([message |-> JStr("m4"), file |-> JStr("/p/a.c"),
                   line |-> JInt(7)])
IssueWrongFields ==
    JDict([type |-> JStr("critical"), message |-> JInt(5), file |-> JInt(1),
           line |-> JStr("x"), column |-> JFloat("1.5"), details |-> None])
IssueListType == JDict([type |-> JList(<<>>), message |-> JStr("m5")])

ShowAB == ShowIssues(JList(<<IssueA, IssueB>>))
ShowA == ShowIssues(JList(<<IssueA>>))
ShowNoLine == ShowIssues(JList(<<IssueNoLine>>))
ShowWrongFields == ShowIssues(JList(<<IssueWrongFields>>))
ShowIssuesNotList == ShowIssues(JStr("x"))
ShowEntryNotObject == ShowIssues(JList(<<IssueA, JInt(7)>>))
ShowListType == ShowIssues(JList(<<IssueListType>>))
HideIssues == Cmd("hide-issues")
ShowStatus ==
    JDict([command |-> JStr("show-status"), message |-> JStr("building"),
           spinner |-> JStr("dots")])
ShowStatusWrong ==
    JDict([command |-> JStr("show-status"), message |-> JInt(1),
           spinner |-> JList(<<JStr("a"), JInt(1)>>)])
HideStatus == Cmd("hide-status")
Clear == Cmd("clear")
CommandNotObject == JInt(5)
CommandNotString == JDict([command |-> JInt(1)])

\* the commands every field of which has the type the protocol expects
WellTypedCommands ==
    {ShowAB, ShowA, ShowNoLine, HideIssues, ShowStatus, HideStatus, Clear}
Commands ==
    WellTypedCommands \cup
    {ShowWrongFields, ShowIssuesNotList, ShowEntryNotObject, ShowListType,
     ShowStatusWrong, CommandNotObject, CommandNotString, Cmd("bogus")}
\* the commands paired with every command, and those put in triples
PairCommands == {ShowAB, HideIssues, ShowStatus, Clear, CommandNotObject}
ShortCommands == {ShowAB, Clear, CommandNotObject}

\* the two documents of the ordering example
DocA == Doc(JStr(ProjectP), <<ShowAB>>)
DocB == Doc(JStr(ProjectP), <<HideIssues>>)

Docs ==
    {Doc(JStr(ProjectP), cs) :
        cs \in {<<>>} \cup {<<c>> : c \in Commands}
                \cup {<<c, d>> : c \in Commands, d \in PairCommands}
                \cup {<<c, d>> : c \in PairCommands, d \in Commands}
                \cup {<<c, d, e>> : c \in ShortCommands, d \in ShortCommands,
                                     e \in ShortCommands}}
    \cup {Doc(JStr(ProjectQ), cs) :
             cs \in {<<ShowIssues(JList(<<IssueAbs>>))>>, <<Clear>>}}
    \cup {Doc(project, <<ShowAB, Clear>>) : project \in {None, JInt(3)}}
    \cup {JDict([commands |-> JList(<<ShowAB>>)]),
          JDict([project |-> JStr(ProjectP), commands |-> JStr("clear")]),
          JDict([project |-> JStr(ProjectP)]),
          JList(<<DocA>>), JStr("doc"), JInt(1), JBool(TRUE), None}

----------------------------------------------------------------------------
(* handle_json as a step of the main thread.                                *)

NoCall ==
    [doc |-> None, raised |-> "", escaped |-> FALSE, updAll |-> 0,
     renders |-> <<>>, notes |-> <<>>, faults |-> 0,
     before |-> [ppm |-> <<>>, wmm |-> {}, vmm |-> <<>>]]

\* run handle_json(in_json) on the plugin's state and record what it did
HandleJsonStep(in_json, order) ==
    \E R \in {handle_json(Enter(path_to_project_map, window_to_manager_map,
                               view_to_manager_map, view_order, next_oid),
                         in_json, order)} :
        /\ path_to_project_map' = R.ppm
        /\ window_to_manager_map' = R.wmm
        /\ view_to_manager_map' = R.vmm
        /\ view_order' = R.vorder
        /\ next_oid' = R.oid
        /\ handled' = handled + 1
        /\ last' = [doc |-> in_json, raised |-> R.raised, escaped |-> R.escaped,
                    updAll |-> R.updAll, renders |-> R.renders,
                    notes |-> R.notes,
                    faults |-> last.faults + (IF R.raised # "" THEN 1 ELSE 0),
                    before |-> [ppm |-> path_to_project_map,
                                wmm |-> window_to_manager_map,
                                vmm |-> view_to_manager_map]]

PluginInit ==
    /\ path_to_project_map = <<>>
    /\ window_to_manager_map = {}
    /\ view_to_manager_map = <<>>
    /\ view_order = <<>>
    /\ next_oid = 1
    /\ last = NoCall
    /\ handled = 0
    /\ processed = <<>>

----------------------------------------------------------------------------
(* SocketServer, SocketConnection and Timeout.                              *)

Readers == 1..MaxConns

\* what a reader's f.read() and json.loads can end with
Outcomes == {"A", "B", "malformed", "ioerror"}
\* json.loads(f.read()) returns a value (otherwise it raises)
Decodes(outcome) == outcome \in {"A", "B"}
Payload(outcome) == IF outcome = "A" THEN DocA ELSE DocB

NoReader == [pc |-> "none", conn |-> "none", stop_event |-> FALSE,
             outcome |-> "", late |-> FALSE]
NoTimeout == [callback |-> FALSE, weak_self |-> FALSE, scheduled |-> 0,
              fired |-> FALSE]
Idle == [at |-> "idle", todo |-> {}, joining |-> 0, cont |-> "return"]
\* no exception was caught yet
NoError == [who |-> "none", kind |-> "", flag |-> FALSE, printed |-> FALSE]
\* no start() or stop() was called yet
NoServerCall == [op |-> "none", noop |-> FALSE, restarted |-> FALSE,
                 file_at_bind |-> FALSE, result |-> "", errors |-> 0,
                 handled |-> 0]

\* SocketConnection.is_active: read_thread.is_alive()
is_active(c) == reader[c].pc \in {"read", "callback", "register"}

ServerInit ==
    /\ socket = "none"
    /\ stop_event = "none"
    /\ accept_thread = "none"
    /\ connections = {}
    /\ socket_file \in BOOLEAN
    /\ main_pc = Idle
    /\ logged = {}
    /\ last_error = NoError
    /\ last_call = NoServerCall
    /\ reader = [i \in Readers |-> NoReader]
    /\ timeout_queue = <<>>
    /\ timeouts = [i \in Readers |-> NoTimeout]
    /\ sTimeouts = {}
    /\ cb_order = <<>>

Init == PluginInit /\ ServerInit

----------------------------------------------------------------------------
(* The main thread: SocketServer.start and SocketServer.stop. stop() blocks *)
(* in join(), so it takes several steps.                                    *)

\* stop(), up to the join of the accept thread: set the flag and close the
\* listening socket (connections waiting in its backlog are refused)
StopBegin(cont) ==
    /\ stop_event' = "set"
    /\ socket' = "closed"
    /\ reader' = [i \in Readers |->
                    IF reader[i].pc = "backlog"
                    THEN [reader[i] EXCEPT !.pc = "refused"] ELSE reader[i]]
    /\ main_pc' = [Idle EXCEPT !.at = "join", !.cont = cont]
    /\ UNCHANGED <<accept_thread, connections, socket_file, logged>>

\* a test of self.socket that never finds a socket
is_started_never(sock) == FALSE

\* "if self.socket": the listener holds a socket
is_started(sock) == sock # "none"

\* SocketServer.stop, called on the main thread
Stop ==
    /\ main_pc.at = "idle"
    /\ last_call.op # "cleanup"
    /\ IF ~is_started(socket)
       THEN UNCHANGED server_vars
       ELSE StopBegin("return")
    /\ last_call' = [last_call EXCEPT !.op = "stop", !.noop = (socket = "none")]
    /\ UNCHANGED <<plugin_vars, timeout_vars, last_error>>

\* a join() that does not wait for the thread to end
join_no_wait(thread) == TRUE

\* Thread.join() returns once the thread has ended
joined(thread) == thread = "done"

\* "self.wait_for_connection_thread.join()" returns
StopJoin ==
    /\ main_pc.at = "join"
    /\ joined(accept_thread)
    /\ main_pc' = [main_pc EXCEPT !.at = "stop_conns", !.todo = connections]
    /\ UNCHANGED <<socket, stop_event, accept_thread, connections, socket_file,
                   logged, reader, plugin_vars, timeout_vars, call_vars>>

\* a _remove_socket that leaves the file in place
remove_socket_keeps(file) == file

\* _remove_socket: os.remove(self.socket_path); afterwards no file is there
remove_socket(file) == FALSE

\* SocketConnection.stop, up to the join: set the flag, shut the connection
\* down and close it
stop_connection(r) == [r EXCEPT !.stop_event = TRUE, !.conn = "closed"]

\* "for connection in self.connections: connection.stop()" and the rest of
\* stop(). SocketConnection.stop sets the reader's flag, shuts the
\* connection down and joins the reader thread.
StopConnections ==
    /\ main_pc.at \in {"stop_conns", "join_reader"}
    /\ IF main_pc.at = "join_reader"
       THEN /\ reader[main_pc.joining].pc \in {"done", "refused", "none"}
            /\ main_pc' = [main_pc EXCEPT !.at = "stop_conns", !.joining = 0]
            /\ UNCHANGED <<socket, stop_event, accept_thread, connections,
                           socket_file, logged, reader>>
       ELSE IF main_pc.todo # {}
       THEN \E c \in main_pc.todo :
            /\ reader' = [reader EXCEPT ![c] = stop_connection(@)]
            /\ main_pc' = [main_pc EXCEPT !.at = "join_reader",
                                          !.todo = @ \ {c}, !.joining = c]
            /\ UNCHANGED <<socket, stop_event, accept_thread, connections,
                           socket_file, logged>>
       ELSE /\ socket' = "none"
            /\ stop_event' = "none"
            /\ accept_thread' = "none"
            /\ connections' = {}
            /\ socket_file' = remove_socket(socket_file)
            /\ main_pc' = [Idle EXCEPT
                             !.at = IF main_pc.cont = "bind" THEN "bind"
                                    ELSE "idle"]
            /\ UNCHANGED <<logged, reader>>
    /\ UNCHANGED <<plugin_vars, timeout_vars, call_vars>>

\* SocketServer.start, up to _remove_socket: a started listener is stopped
Start ==
    /\ main_pc.at = "idle"
    /\ last_call.op # "cleanup"
    /\ IF is_started(socket)
       THEN StopBegin("bind")
       ELSE /\ main_pc' = [Idle EXCEPT !.at = "bind"]
            /\ UNCHANGED <<socket, stop_event, accept_thread, connections,
                           socket_file, logged, reader>>
    /\ last_call' = [NoServerCall EXCEPT !.op = "start",
                                         !.restarted = (socket # "none")]
    /\ UNCHANGED <<plugin_vars, timeout_vars, last_error>>

\* bind() on a path where a file exists raises EADDRINUSE; otherwise the
\* environment decides whether bind and listen succeed
bind_outcome(file, result) == IF file THEN "address_in_use" ELSE result

\* the except branch of start() that closes the socket and forgets to reset it
after_start_error_keeps(sock) == "closed"

\* the except branch of start(): self.socket.close(); self.socket = None
after_start_error(sock) == "none"

\* calls of sublime.error_message in one start()
error_messages(out) == IF out = "ok" THEN 0 ELSE 1

\* the rest of start(): _remove_socket, then socket/bind/listen and the
\* accept thread, or the except branch when bind or listen raises
StartBind(result) ==
    /\ main_pc.at = "bind"
    /\ main_pc' = Idle
    /\ \E out \in {bind_outcome(remove_socket(socket_file), result)} :
        /\ last_call' = [last_call EXCEPT
                            !.file_at_bind = remove_socket(socket_file),
                            !.result = out,
                            !.errors = error_messages(out)]
        /\ CASE out = "ok" ->
                  /\ socket' = "open"
                  /\ socket_file' = TRUE
                  /\ stop_event' = "clear"
                  /\ accept_thread' = "test"
                  /\ UNCHANGED logged
             [] out \in {"bind_fails", "address_in_use"} ->
                  /\ socket' = after_start_error("open")
                  /\ socket_file' = remove_socket(socket_file)
                  /\ logged' = logged \cup {[who |-> "error_message",
                                              flag |-> FALSE]}
                  /\ UNCHANGED <<stop_event, accept_thread>>
             [] out = "listen_fails" ->
                  /\ socket' = after_start_error("open")
                  /\ socket_file' = TRUE
                  /\ logged' = logged \cup {[who |-> "error_message",
                                              flag |-> FALSE]}
                  /\ UNCHANGED <<stop_event, accept_thread>>
    /\ UNCHANGED <<connections, reader, plugin_vars, timeout_vars, last_error>>

----------------------------------------------------------------------------
(* The accept thread: SocketServer._wait_for_connection.                    *)

\* "Prune connection list": the readers of self.connections still active.
\* The reader just constructed is bound to the name the loop reuses and is
\* not added.
prune(conns, new) == {c \in conns : is_active(c)}

\* where the accept thread goes when accept() raises: the try encloses the
\* whole loop, so both except branches leave it
after_accept_error(kind) == "done"

\* is an exception of the accept loop printed: ConnectionAbortedError is
\* passed over, everything else is printed
accept_error_printed(kind) == kind # "ConnectionAbortedError"

\* "while not self.stop_event.is_set()"
AcceptTest ==
    /\ accept_thread = "test"
    /\ accept_thread' = IF stop_event = "set" THEN "done" ELSE "accept"
    /\ UNCHANGED <<socket, stop_event, connections, socket_file, main_pc,
                   logged, reader, plugin_vars, timeout_vars, call_vars>>

\* accept() returns a connection: construct its SocketConnection (which
\* starts the read thread) and prune
Accept(i) ==
    /\ accept_thread = "accept"
    /\ socket = "open"
    /\ reader[i].pc = "backlog"
    /\ reader' = [reader EXCEPT ![i].pc = "read", ![i].conn = "open"]
    /\ connections' = prune(connections, i)
    /\ accept_thread' = "test"
    /\ UNCHANGED <<socket, stop_event, socket_file, main_pc, logged,
                   plugin_vars, timeout_vars, call_vars>>

\* accept() raises: because stop() closed the socket, or for a reason of
\* its own (ECONNABORTED, EMFILE, ...) while the socket is open
AcceptRaises(kind) ==
    /\ accept_thread = "accept"
    /\ socket \in {"open", "closed"}
    /\ accept_thread' = after_accept_error(kind)
    /\ last_error' = [who |-> "accept", kind |-> kind,
                      flag |-> stop_event = "set",
                      printed |-> accept_error_printed(kind)]
    /\ logged' = IF accept_error_printed(kind)
                 THEN logged \cup {[who |-> "accept", flag |-> stop_event = "set"]}
                 ELSE logged
    /\ UNCHANGED <<socket, stop_event, connections, socket_file, main_pc,
                   reader, plugin_vars, timeout_vars, last_call>>

----------------------------------------------------------------------------
(* Peers and the reader threads: SocketConnection._read_connection.         *)

\* a peer connects to the listening socket; ids are handed out in order
PeerConnect(i) ==
    /\ socket = "open"
    /\ reader[i].pc = "none"
    /\ \A j \in Readers : j < i => reader[j].pc # "none"
    /\ reader' = [reader EXCEPT ![i].pc = "backlog"]
    /\ UNCHANGED <<socket, stop_event, accept_thread, connections, socket_file,
                   main_pc, logged, plugin_vars, timeout_vars, call_vars>>

\* after_read without the exception: the callback runs whatever was read
after_read_always_callback(outcome) == "callback"

\* the reader after f.read() and json.loads: on success it goes on to
\* conn.close() and the callback, on an exception to the except branch
after_read(outcome) == IF Decodes(outcome) THEN "callback" ELSE "done"

\* the connection after the read: only the success path calls conn.close()
conn_after_read(outcome, conn) == IF Decodes(outcome) THEN "closed" ELSE conn

\* the except branch prints unless the reader's stop_event is set
read_error_printed(flag) == ~flag

\* f.read() returns at end-of-stream (or raises), json.loads decodes (or
\* raises); on success the connection is closed
ReadReturns(i, outcome) ==
    /\ reader[i].pc = "read"
    /\ reader' = [reader EXCEPT
                    ![i].pc = after_read(outcome),
                    ![i].outcome = outcome,
                    ![i].conn = conn_after_read(outcome, @)]
    /\ last_error' = IF Decodes(outcome) THEN last_error
                     ELSE [who |-> "reader", kind |-> outcome,
                           flag |-> reader[i].stop_event,
                           printed |-> read_error_printed(reader[i].stop_event)]
    /\ logged' = IF ~Decodes(outcome) /\ read_error_printed(reader[i].stop_event)
                 THEN logged \cup {[who |-> "reader", flag |-> reader[i].stop_event]}
                 ELSE logged
    /\ UNCHANGED <<socket, stop_event, accept_thread, connections, socket_file,
                   main_pc, plugin_vars, timeout_vars, last_call>>

\* set_timeout putting the task before the ones already scheduled
set_timeout_front(queue, id) == <<id>> \o queue

\* sublime.set_timeout(self.__call, 0): the task joins the main thread's queue
set_timeout(queue, id) == Append(queue, id)

\* self.callback(contents): the lambda constructs a Timeout, whose __init__
\* stores the callback and schedules the task ...
Callback(i) ==
    /\ reader[i].pc = "callback"
    /\ timeouts' = [timeouts EXCEPT ![i].callback = TRUE,
                                    ![i].scheduled = @ + 1]
    /\ timeout_queue' = set_timeout(timeout_queue, i)
    /\ cb_order' = Append(cb_order, i)
    /\ reader' = [reader EXCEPT ![i].pc = "register",
                                ![i].late = reader[i].stop_event]
    /\ UNCHANGED <<socket, stop_event, accept_thread, connections, socket_file,
                   main_pc, logged, sTimeouts, plugin_vars, call_vars>>

\* ... and then assigns weak_self and adds it to sTimeouts; the reader ends
Register(i) ==
    /\ reader[i].pc = "register"
    /\ timeouts' = [timeouts EXCEPT ![i].weak_self = TRUE]
    /\ sTimeouts' = sTimeouts \cup {i}
    /\ reader' = [reader EXCEPT ![i].pc = "done"]
    /\ UNCHANGED <<socket, stop_event, accept_thread, connections, socket_file,
                   main_pc, logged, timeout_queue, cb_order, plugin_vars,
                   call_vars>>

----------------------------------------------------------------------------
(* The main thread runs the scheduled tasks: Timeout.__call.                *)

\* the task the main thread runs next
next_task(queue) == Head(queue)

\* Timeout.__call: run the callback (handle_json on the reader's document)
\* unless cancelled, then cancel(), which raises AttributeError when
\* weak_self is not assigned yet
RunTimeout(order) ==
    /\ main_pc.at = "idle"
    /\ timeout_queue # <<>>
    /\ LET id == next_task(timeout_queue)
       IN  /\ timeout_queue' = SelectSeq(timeout_queue, LAMBDA j : j # id)
           /\ IF timeouts[id].callback
              THEN /\ HandleJsonStep(Payload(reader[id].outcome), order)
                   /\ processed' = Append(processed, id)
              ELSE UNCHANGED plugin_vars
           /\ timeouts' = [timeouts EXCEPT ![id].callback = FALSE,
                                           ![id].fired = TRUE]
           /\ sTimeouts' = IF timeouts[id].weak_self THEN sTimeouts \ {id}
                           ELSE sTimeouts
    /\ UNCHANGED <<server_vars, cb_order, call_vars>>

----------------------------------------------------------------------------
(* Plugin teardown: cleanup_plugin and BuildSockPlugin.destroy.             *)

\* the Timeouts cleanup_plugin cancels: those of sTimeouts whose weak
\* reference is alive, i.e. whose task is still scheduled
cancelled_by_cleanup(registered, queue) ==
    {i \in registered : \E k \in 1..Len(queue) : queue[k] = i}

\* cleanup_plugin: cancel the registered Timeouts, then destroy(), which
\* empties the registry and the window managers and stops the listener
\* (the view managers erase their regions and stay in their map)
Cleanup ==
    /\ main_pc.at = "idle"
    /\ last_call.op # "cleanup"
    /\ timeouts' = [i \in Readers |->
                      IF i \in cancelled_by_cleanup(sTimeouts, timeout_queue)
                      THEN [timeouts[i] EXCEPT !.callback = FALSE]
                      ELSE timeouts[i]]
    /\ sTimeouts' = sTimeouts \ cancelled_by_cleanup(sTimeouts, timeout_queue)
    /\ path_to_project_map' = <<>>
    /\ window_to_manager_map' = {}
    /\ IF ~is_started(socket)
       THEN UNCHANGED server_vars
       ELSE StopBegin("return")
    /\ last_call' = [NoServerCall EXCEPT !.op = "cleanup", !.handled = handled]
    /\ UNCHANGED <<view_to_manager_map, view_order, next_oid, last, handled,
                   processed, timeout_queue, cb_order, last_error>>

----------------------------------------------------------------------------
(* The listener with its peers, readers and the main thread.                *)

Next ==
    \/ Start
    \/ \E result \in {"ok", "bind_fails", "listen_fails"} : StartBind(result)
    \/ Stop
    \/ StopJoin
    \/ StopConnections
    \/ AcceptTest
    \/ \E i \in Readers : Accept(i)
    \/ \E kind \in {"ConnectionAbortedError", "OSError"} : AcceptRaises(kind)
    \/ \E i \in Readers : PeerConnect(i)
    \/ \E i \in Readers, outcome \in Outcomes : ReadReturns(i, outcome)
    \/ \E i \in Readers : Callback(i)
    \/ \E i \in Readers : Register(i)
    \/ \E order \in ViewOrders : RunTimeout(order)
    \/ Cleanup

Spec == Init /\ [][Next]_vars

----------------------------------------------------------------------------
(* SocketConnection alone: its owner constructs it and may call stop() on   *)
(* it at any time.                                                          *)

\* SocketConnection.__init__: the read thread starts
ConnInit(i) ==
    /\ reader[i].pc = "none"
    /\ \A j \in Readers : j < i => reader[j].pc # "none"
    /\ reader' = [reader EXCEPT ![i].pc = "read", ![i].conn = "open"]
    /\ UNCHANGED <<socket, stop_event, accept_thread, connections, socket_file,
                   main_pc, logged, plugin_vars, timeout_vars, call_vars>>

\* SocketConnection.stop, up to "self.read_thread.join()"
ConnStop(i) ==
    /\ main_pc.at = "idle"
    /\ reader[i].pc # "none"
    /\ ~reader[i].stop_event
    /\ reader' = [reader EXCEPT ![i] = stop_connection(@)]
    /\ main_pc' = [Idle EXCEPT !.at = "join_reader", !.joining = i]
    /\ UNCHANGED <<socket, stop_event, accept_thread, connections, socket_file,
                   logged, plugin_vars, timeout_vars, call_vars>>

\* "self.read_thread.join()" returns
ConnJoin ==
    /\ main_pc.at = "join_reader"
    /\ joined(reader[main_pc.joining].pc)
    /\ main_pc' = Idle
    /\ UNCHANGED <<socket, stop_event, accept_thread, connections, socket_file,
                   logged, reader, plugin_vars, timeout_vars, call_vars>>

NextConn ==
    \/ \E i \in Readers : ConnInit(i)
    \/ \E i \in Readers : ConnStop(i)
    \/ ConnJoin
    \/ \E i \in Readers, outcome \in Outcomes : ReadReturns(i, outcome)
    \/ \E i \in Readers : Callback(i)
    \/ \E i \in Readers : Register(i)
    \/ \E order \in ViewOrders : RunTimeout(order)

InitConn == Init /\ socket_file = FALSE

SpecConn == InitConn /\ [][NextConn]_vars

----------------------------------------------------------------------------
(* The protocol processor alone: documents handed to handle_json one after  *)
(* the other on the main thread.                                            *)

DocTask(in_json, order) ==
    /\ handled < MaxDocs
    /\ HandleJsonStep(in_json, order)
    /\ UNCHANGED <<processed, server_vars, timeout_vars, call_vars>>

NextDoc == \E in_json \in Docs, order \in ViewOrders : DocTask(in_json, order)

InitDoc == Init /\ socket_file = FALSE

SpecDoc == InitDoc /\ [][NextDoc]_vars

----------------------------------------------------------------------------
(* parse_issue alone: one show-issues document with one issue object, whose  *)
(* fields are drawn from the JSON values a peer can send.                    *)

\* the field is not in the issue object
Absent == [t |-> "absent"]

TypeValues ==
    {Absent, JStr("info"), JStr("warning"), JStr("error"), JStr("critical"),
     JStr(""), JInt(5), JBool(TRUE), JFloat("1.5"), None, JList(<<>>),
     JDict(<<>>)}
MessageValues == {Absent, JStr("m"), JStr(""), JInt(5)}
FileValues ==
    {Absent, JStr("a.c"), JStr("sub/b.c"), JStr("/abs/c.c"), JStr(""), JInt(7)}
LineValues ==
    {Absent, JInt(1), JInt(3), JInt(0), JInt(-1), JBool(TRUE), JStr("3"),
     JFloat("1.5"), None}
ColumnValues == {Absent, JInt(2), JInt(0), JStr("x")}
DetailsValues == {Absent, JStr("d"), JInt(5)}
TooltipValues == {Absent, JStr("t"), None}

\* the fields of the issue objects sent: every type with every message,
\* every file with every line and column, every details with every tooltip
IssueFieldChoices ==
    {[type |-> ty, message |-> m, file |-> JStr("a.c"), line |-> JInt(1),
      column |-> Absent, details |-> Absent, tooltip |-> Absent] :
        ty \in TypeValues, m \in MessageValues}
    \cup {[type |-> JStr("error"), message |-> JStr("m"), file |-> fi,
           line |-> li, column |-> co, details |-> Absent, tooltip |-> Absent] :
             fi \in FileValues, li \in LineValues, co \in ColumnValues}
    \cup {[type |-> JStr("info"), message |-> JStr("m"), file |-> Absent,
           line |-> Absent, column |-> Absent, details |-> de, tooltip |-> to] :
             de \in DetailsValues, to \in TooltipValues}

\* the JSON object with the fields of f that are not Absent
IssueObject(f) == JDict([k \in {j \in DOMAIN f : f[j].t # "absent"} |-> f[k]])

IssueObjects == {IssueObject(f) : f \in IssueFieldChoices}

IssueTask(in_issue, order) ==
    /\ handled < MaxIssueDocs
    /\ HandleJsonStep(Doc(JStr(ProjectP), <<ShowIssues(JList(<<in_issue>>))>>),
                      order)
    /\ UNCHANGED <<processed, server_vars, timeout_vars, call_vars>>

NextIssue ==
    \E in_issue \in IssueObjects, order \in ViewOrders :
        IssueTask(in_issue, order)

SpecIssue == InitDoc /\ [][NextIssue]_vars

----------------------------------------------------------------------------
(* Properties. Helpers first.                                               *)

\* occurrences of x in seq
Count(seq, x) == Cardinality({k \in 1..Len(seq) : seq[k] = x})

\* the elements of sub occur in seq, in the same relative order
InSameOrder(sub, seq) ==
    \A a, b \in 1..Len(sub) :
        a < b => \E x, y \in 1..Len(seq) :
                    x < y /\ seq[x] = sub[a] /\ seq[y] = sub[b]

\* the document is an object whose project is a string
HasStringProject(doc) == doc.t = "dict" /\ Get(doc, "project").t = "str"

\* the commands array of a document, as parse_root reads it
CommandsOf(doc) == check_type(Get(doc, "commands"), "list", JList(<<>>)).l

\* the commands array holds an object whose command is one of names
HasCommand(doc, names) ==
    \E k \in 1..Len(CommandsOf(doc)) :
        /\ CommandsOf(doc)[k].t = "dict"
        /\ Get(CommandsOf(doc)[k], "command") \in {JStr(n) : n \in names}

\* an Issue without its identity, and equality of issue sets by value
Fields(i) ==
    [type |-> i.type, message |-> i.message, path |-> i.path, file |-> i.file,
     line |-> i.line, column |-> i.column, details |-> i.details,
     tooltip |-> i.tooltip]
EqualByValue(x, y) ==
    IF x.t = "set" /\ y.t = "set"
    THEN {Fields(i) : i \in x.e} = {Fields(i) : i \in y.e}
    ELSE x.t = y.t

\* stop() has returned and the listener is not started
Stopped == main_pc.at = "idle" /\ socket = "none"

\* C1: after SocketServer.stop() has returned, no thread the listener
\* started is alive: neither the accept thread nor any reader thread.
C1_StopJoinsEveryThread ==
    Stopped => /\ accept_thread \notin {"test", "accept"}
               /\ \A i \in Readers : ~is_active(i)

\* C2: a reader whose read loop has finished has closed its connection,
\* whatever the outcome of the read.
C2_FinishedReaderClosed ==
    \A i \in Readers : reader[i].pc = "done" => reader[i].conn = "closed"

\* C3: per connection the callback runs at most once, each run schedules
\* exactly one handle_json task, and a finished reader has run it once when
\* the bytes decoded as JSON and not at all when they did not.
C3_CallbackOncePerDecodedDocument ==
    \A i \in Readers :
        /\ Count(cb_order, i) <= 1
        /\ timeouts[i].scheduled = Count(cb_order, i)
        /\ Count(timeout_queue, i) + (IF timeouts[i].fired THEN 1 ELSE 0)
               = Count(cb_order, i)
        /\ reader[i].pc = "done" =>
               Count(cb_order, i) = IF Decodes(reader[i].outcome) THEN 1 ELSE 0

\* C3 witness: one reader delivered its document, another read a malformed
\* payload and delivered nothing.
C3_Witness ==
    \E i, j \in Readers :
        /\ reader[i].pc = "done" /\ Decodes(reader[i].outcome)
        /\ Count(cb_order, i) = 1
        /\ reader[j].pc = "done" /\ reader[j].outcome = "malformed"
        /\ Count(cb_order, j) = 0

\* C4: documents are processed in the order of their callbacks, each as a
\* whole: whenever the document processed last is B = [hide-issues], the
\* project has no issues, and whenever it is A = [show-issues with 2
\* issues], the project has these two (unless the plugin's teardown has
\* emptied the registry since).
C4_ProcessedInCallbackOrder ==
    /\ InSameOrder(processed, cb_order)
    /\ \A k \in 1..Len(processed) : Count(cb_order, processed[k]) = 1
    /\ (/\ processed # <<>>
        /\ ~(last_call.op = "cleanup" /\ handled = last_call.handled)) =>
          /\ ProjectP \in DOMAIN path_to_project_map
          /\ IF reader[processed[Len(processed)]].outcome = "B"
             THEN ~Truthy(path_to_project_map[ProjectP].issues)
             ELSE Len(path_to_project_map[ProjectP].issues.l) = 2

\* C4 witness: A was accepted after B but completed reading first; A then B
\* were processed and the project has no issues.
C4_Witness ==
    /\ cb_order = <<2, 1>>
    /\ processed = <<2, 1>>
    /\ reader[2].outcome = "A" /\ reader[1].outcome = "B"
    /\ ~Truthy(path_to_project_map[ProjectP].issues)

\* C5: after a document with a string project P and a clear command at any
\* position, P is not in the registry.
C5_ClearRemovesProject ==
    (HasStringProject(last.doc) /\ HasCommand(last.doc, {"clear"}))
        => Get(last.doc, "project").s \notin DOMAIN path_to_project_map

\* C6: a document that ran to its end called update_all_views exactly once
\* if it held a show-issues, hide-issues or clear command, and not at all
\* otherwise.
C6_OneResyncPerDocument ==
    (HasStringProject(last.doc) /\ last.raised = "")
        => last.updAll =
             IF HasCommand(last.doc, {"show-issues", "hide-issues", "clear"})
             THEN 1 ELSE 0

\* C7: a show-issues whose issues equal, by value, the set a buffer already
\* displays does not re-render that buffer.
C7_NoRedundantRender ==
    (/\ HasStringProject(last.doc)
     /\ HasCommand(last.doc, {"show-issues"})
     /\ last.raised = "")
        => \A v \in DOMAIN last.before.vmm :
              (/\ last.before.vmm[v].t = "set"
               /\ EqualByValue(last.before.vmm[v], view_to_manager_map[v]))
                  => Count(last.renders, v) = 0

\* C8: no document that is an object with a string project raises inside
\* handle_json, whatever the types of its values.
C8_NoValidationFaultRaises ==
    HasStringProject(last.doc) => last.raised = ""

\* C9: no exception escapes handle_json, for any decoded value, and the
\* documents handled after a faulty one are applied: after A the project
\* has A's two issues, after B it has none.
C9_NothingEscapesHandleJson ==
    /\ ~last.escaped
    /\ last.doc \in {DocA, DocB} =>
          /\ last.raised = ""
          /\ ProjectP \in DOMAIN path_to_project_map
          /\ IF last.doc = DocB
             THEN ~Truthy(path_to_project_map[ProjectP].issues)
             ELSE Len(path_to_project_map[ProjectP].issues.l) = 2

\* C9 witness: a document raised inside handle_json (a command that is not
\* an object), and the document after it was applied.
C9_Witness ==
    /\ last.faults = 1
    /\ handled = 2
    /\ last.doc = DocA
    /\ last.raised = ""
    /\ Len(path_to_project_map[ProjectP].issues.l) = 2

\* C10: while stop() has not been called on a started listener, its accept
\* loop is alive.
C10_StartedListenerAccepts ==
    (socket = "open" /\ stop_event = "clear")
        => accept_thread \in {"test", "accept"}

\* C11: while the listener is started, every live reader thread is a member
\* of SocketServer.connections: the reader just spawned and every earlier
\* reader that is still active.
C11_ReaderSetHoldsLiveReaders ==
    (socket = "open" /\ main_pc.at = "idle")
        => \A i \in Readers : is_active(i) => i \in connections

C13_FailedStartLeavesNotStarted ==
    last_call.result \in {"bind_fails", "listen_fails", "address_in_use"}
        => /\ socket = "none"
           /\ accept_thread = "none"
           /\ main_pc = Idle
           /\ last_call.errors = 1
           /\ last_call.op = "stop" => last_call.noop

\* C13 witness: listen failed in a start() that had to stop a started
\* listener first, and stop() was called afterwards.
C13_Witness ==
    /\ last_call.result = "listen_fails"
    /\ last_call.restarted
    /\ last_call.op = "stop"
    /\ socket_file

\* the issues of the registry whose path is path
IssuesAt(path) ==
    UNION {{path_to_project_map[p].issues.l[k] :
               k \in {n \in 1..Len(path_to_project_map[p].issues.l) :
                         path_to_project_map[p].issues.l[n].path = path}} :
           p \in {q \in DOMAIN path_to_project_map :
                     path_to_project_map[q].issues.t = "list"}}

\* C14: after a document whose re-association pass ran to its end, every
\* buffer with a ViewManager holds exactly the issues of all projects whose
\* path is the buffer's file (nothing when there are none), and every
\* file-backed buffer with such an issue has a ViewManager.
C14_PassLeavesExactIssues ==
    (last.updAll > 0 /\ last.raised = "")
        => /\ \A v \in DOMAIN view_to_manager_map :
                 IF IssuesAt(file_name(v)) = {}
                 THEN view_to_manager_map[v] = None
                 ELSE view_to_manager_map[v] = PySet(IssuesAt(file_name(v)))
           /\ \A v \in Views :
                 (file_name(v) # None /\ IssuesAt(file_name(v)) # {})
                     => v \in DOMAIN view_to_manager_map

\* C14 witness: a show-issues replaced the project's issues; the buffer of
\* b.c lost its issue and holds nothing, the buffer of a.c holds one.
C14_Witness ==
    /\ last.updAll = 1 /\ last.raised = ""
    /\ "v2" \in DOMAIN last.before.vmm
    /\ last.before.vmm["v2"].t = "set"
    /\ view_to_manager_map["v2"] = None
    /\ view_to_manager_map["v1"].t = "set"

\* the project path of a document whose project is a string
ProjectOf(doc) == Get(doc, "project").s

\* C15: a document with string project P leaves P registered unless it
\* holds a clear; a project is registered under its own path; a project
\* leaves the registry only in a document for it that holds a clear; and no
\* project but the document's own enters the registry.
C15_ProjectLifecycle ==
    /\ (HasStringProject(last.doc) /\ ~HasCommand(last.doc, {"clear"}))
           => ProjectOf(last.doc) \in DOMAIN path_to_project_map
    /\ \A p \in DOMAIN path_to_project_map : path_to_project_map[p].path = p
    /\ \A p \in DOMAIN last.before.ppm \ DOMAIN path_to_project_map :
           /\ HasStringProject(last.doc)
           /\ ProjectOf(last.doc) = p
           /\ HasCommand(last.doc, {"clear"})
    /\ \A p \in DOMAIN path_to_project_map \ DOMAIN last.before.ppm :
           HasStringProject(last.doc) /\ ProjectOf(last.doc) = p

\* C15 witness: a clear for /q was processed while /p was registered; /p
\* is still registered and /q is not.
C15_Witness ==
    /\ last.doc = Doc(JStr(ProjectQ), <<Clear>>)
    /\ last.raised = ""
    /\ ProjectP \in DOMAIN last.before.ppm
    /\ DOMAIN path_to_project_map = {ProjectP}

\* C16: a document that is not an object, or whose project is absent or not
\* a string, changes neither the registry nor the window managers nor the
\* view managers, notifies no manager and renders nothing.
C16_NoProjectNoEffect ==
    (handled > 0 /\ ~HasStringProject(last.doc))
        => /\ path_to_project_map = last.before.ppm
           /\ window_to_manager_map = last.before.wmm
           /\ view_to_manager_map = last.before.vmm
           /\ last.notes = <<>>
           /\ last.renders = <<>>
           /\ last.updAll = 0
           /\ last.raised = ""

\* C16 witness: a document with project null and the commands show-issues
\* and clear was processed while /p was registered with issues on display.
C16_Witness ==
    /\ last.doc = Doc(None, <<ShowAB, Clear>>)
    /\ ProjectP \in DOMAIN path_to_project_map
    /\ "v1" \in DOMAIN view_to_manager_map
    /\ view_to_manager_map["v1"].t = "set"

\* the command is an object whose command is one of names
IsCmd(c, names) == c.t = "dict" /\ Get(c, "command") \in {JStr(n) : n \in names}

\* the entries of a show-issues command, as parse_root reads them
EntriesOf(c) == check_type(Get(c, "issues"), "list", JList(<<>>)).l

\* applying the command raises: it is not an object, or it is a show-issues
\* one entry of which is not an object or has an unhashable type
Faulty(c) ==
    \/ c.t # "dict"
    \/ /\ IsCmd(c, {"show-issues"})
       /\ \E k \in 1..Len(EntriesOf(c)) :
              \/ EntriesOf(c)[k].t # "dict"
              \/ ~Hashable(Get(EntriesOf(c)[k], "type"))

\* the index of the first command that raises, 0 when there is none
FirstFault(cs) ==
    IF \E k \in 1..Len(cs) : Faulty(cs[k])
    THEN CHOOSE k \in 1..Len(cs) :
            Faulty(cs[k]) /\ \A j \in 1..(k - 1) : ~Faulty(cs[j])
    ELSE 0

\* the index of the last of the first n commands that is one of names, or 0
LastIndex(cs, n, names) ==
    IF \E k \in 1..n : IsCmd(cs[k], names)
    THEN CHOOSE k \in 1..n :
            IsCmd(cs[k], names) /\ \A j \in (k + 1)..n : ~IsCmd(cs[j], names)
    ELSE 0

\* the issues of a project as the sequence of their messages (None if absent)
IssuesShape(x) ==
    IF x.t = "list" THEN [k \in 1..Len(x.l) |-> x.l[k].message] ELSE x

\* the project as it was before the document (as created, if it was not there)
Before(p) ==
    IF p \in DOMAIN last.before.ppm THEN last.before.ppm[p] ELSE Project(p)

\* what the issues of project p must be when command k was the last
\* show-issues/hide-issues applied (k = 0: none was)
ExpectedIssues(cs, k, p) ==
    IF k = 0 THEN IssuesShape(Before(p).issues)
    ELSE IF IsCmd(cs[k], {"hide-issues"}) THEN None
    ELSE [j \in 1..Len(EntriesOf(cs[k])) |->
            IF Get(EntriesOf(cs[k])[j], "message").t = "str"
            THEN Get(EntriesOf(cs[k])[j], "message") ELSE JStr("")]

\* what the status message of project p must be when command k was the last
\* show-status/hide-status applied
ExpectedStatus(cs, k, p) ==
    IF k = 0 THEN Before(p).status_message
    ELSE IF IsCmd(cs[k], {"hide-status"}) THEN None
    ELSE IF Get(cs[k], "message").t = "str" THEN Get(cs[k], "message")
    ELSE None

\* the project's fields are what the first n commands of cs leave
AppliedUpTo(cs, n, p) ==
    /\ p \in DOMAIN path_to_project_map
    /\ IssuesShape(path_to_project_map[p].issues) =
          ExpectedIssues(cs, LastIndex(cs, n, {"show-issues", "hide-issues"}), p)
    /\ path_to_project_map[p].status_message =
          ExpectedStatus(cs, LastIndex(cs, n, {"show-status", "hide-status"}), p)
    /\ LastIndex(cs, n, {"show-status", "hide-status"}) # 0
       /\ IsCmd(cs[LastIndex(cs, n, {"show-status", "hide-status"})],
                {"hide-status"})
          => path_to_project_map[p].status_spinner = None

\* C17: when command k of a document raises, the exception is caught by
\* handle_json, the project is registered and holds what commands 1..k-1
\* left (a clear among them is not carried out), and nothing after k ran:
\* no re-association pass, no other project touched.
C17_FaultKeepsAppliedPrefix ==
    (HasStringProject(last.doc) /\ FirstFault(CommandsOf(last.doc)) > 0)
        => /\ last.raised \in {"AttributeError", "TypeError"}
           /\ ~last.escaped
           /\ AppliedUpTo(CommandsOf(last.doc),
                          FirstFault(CommandsOf(last.doc)) - 1,
                          ProjectOf(last.doc))
           /\ last.updAll = 0
           /\ view_to_manager_map = last.before.vmm
           /\ \A p \in DOMAIN last.before.ppm \ {ProjectOf(last.doc)} :
                 /\ p \in DOMAIN path_to_project_map
                 /\ path_to_project_map[p] = last.before.ppm[p]

\* C17 witness: [show-issues, 5, clear] for an unknown project: the project
\* was created, holds the two issues and was not cleared.
C17_Witness ==
    /\ last.doc = Doc(JStr(ProjectP), <<ShowAB, CommandNotObject, Clear>>)
    /\ ProjectP \notin DOMAIN last.before.ppm
    /\ last.raised = "AttributeError"
    /\ Len(path_to_project_map[ProjectP].issues.l) = 2

\* C18: a document without a clear, none of whose commands raises, leaves
\* the project's issues as its last show-issues/hide-issues says and its
\* status as its last show-status/hide-status says, each untouched when the
\* document has no command of its pair.
C18_CommandsInArrayOrder ==
    (/\ HasStringProject(last.doc)
     /\ FirstFault(CommandsOf(last.doc)) = 0
     /\ ~HasCommand(last.doc, {"clear"}))
        => AppliedUpTo(CommandsOf(last.doc), Len(CommandsOf(last.doc)),
                       ProjectOf(last.doc))

\* C18 witness: [show-issues, hide-issues] on a project that had a status:
\* the issues are gone, the status is as before.
C18_Witness ==
    /\ last.doc = Doc(JStr(ProjectP), <<ShowAB, HideIssues>>)
    /\ ProjectP \in DOMAIN last.before.ppm
    /\ last.before.ppm[ProjectP].status_message = JStr("building")
    /\ path_to_project_map[ProjectP].status_message = JStr("building")
    /\ path_to_project_map[ProjectP].issues = None

\* C19: the main thread is inside the part of stop() that reads and resets
\* self.connections only when the accept thread has ended.
C19_ReaderSetOneThreadAtATime ==
    main_pc.at \in {"stop_conns", "join_reader"} => accept_thread = "done"

\* C19 witness: stop() came between a peer's connect and its accept; the
\* accept thread had accepted another reader, which is still reading.
C19_Witness ==
    /\ main_pc.at = "stop_conns"
    /\ \E i, j \in Readers : reader[i].pc = "read" /\ reader[j].pc = "refused"

\* C20: an exception caught by the accept loop or by a reader is printed
\* exactly when the shutdown flag was not set at that time.
C20_ErrorsClassifiedByFlag ==
    last_error.who # "none" => (last_error.printed <=> ~last_error.flag)

\* the issue object of the last document, and the Issue stored for it
SentIssue == EntriesOf(CommandsOf(last.doc)[1])[1]
StoredIssue == path_to_project_map[ProjectOf(last.doc)].issues.l[1]

\* the last document is one show-issues with one issue object
OneIssueSent ==
    /\ handled > 0
    /\ HasStringProject(last.doc)
    /\ Len(CommandsOf(last.doc)) = 1
    /\ IsCmd(CommandsOf(last.doc)[1], {"show-issues"})
    /\ Len(EntriesOf(CommandsOf(last.doc)[1])) = 1
    /\ SentIssue.t = "dict"

\* C21: an issue object whose type is not "info", "warning" or "error" (any
\* other string, no type, a value of another JSON type) is stored, as one
\* Issue of the generic kind.
C21_UnknownTypeIsGeneric ==
    (/\ OneIssueSent
     /\ Get(SentIssue, "type") \notin {JStr("info"), JStr("warning"),
                                        JStr("error")})
        => /\ ProjectOf(last.doc) \in DOMAIN path_to_project_map
           /\ path_to_project_map[ProjectOf(last.doc)].issues.t = "list"
           /\ Len(path_to_project_map[ProjectOf(last.doc)].issues.l) = 1
           /\ StoredIssue.type = IssueType.GENERIC

\* a field sent with the type the protocol gives it reads back as sent; an
\* optional field that was not sent reads back as None
ReadsBack(key, type) ==
    /\ Get(SentIssue, key).t = type => StoredIssue[key] = Get(SentIssue, key)
    /\ key \notin DOMAIN SentIssue.d =>
          StoredIssue[key] = IF key = "message" THEN JStr("") ELSE None

\* every field reads back
FieldsReadBack ==
    /\ ReadsBack("message", "str")
    /\ ReadsBack("file", "str")
    /\ ReadsBack("line", "int")
    /\ ReadsBack("column", "int")
    /\ ReadsBack("details", "str")
    /\ ReadsBack("tooltip", "str")

\* the last document's one issue object was parsed and stored
OneIssueStored == OneIssueSent /\ FirstFault(CommandsOf(last.doc)) = 0

\* C22 as stated: every field sent reads back as sent, every optional field
\* not sent reads back as None, and path is os.path.join(project, file)
\* whenever file was sent, None otherwise.
C22_RoundTripAsStated ==
    OneIssueStored
        => /\ FieldsReadBack
           /\ StoredIssue.path =
                 IF Get(SentIssue, "file").t = "str"
                 THEN JStr(path_join(ProjectOf(last.doc),
                                     Get(SentIssue, "file").s))
                 ELSE None

\* C22: every field sent reads back as sent, every optional field not sent
\* reads back as None, and path is os.path.join(project, file) whenever
\* file was sent as a non-empty string, None otherwise.
C22_RoundTrip ==
    OneIssueStored
        => /\ FieldsReadBack
           /\ StoredIssue.path =
                 IF Get(SentIssue, "file").t = "str"
                    /\ Get(SentIssue, "file").s # ""
                 THEN JStr(path_join(ProjectOf(last.doc),
                                     Get(SentIssue, "file").s))
                 ELSE None

\* C22 witness: an issue with file, line and column and without details and
\* tooltip was stored with its path under the project.
C22_Witness ==
    /\ OneIssueStored
    /\ StoredIssue.file = JStr("sub/b.c")
    /\ StoredIssue.path = JStr("/p/sub/b.c")
    /\ StoredIssue.line = JInt(3)
    /\ StoredIssue.column = JInt(2)
    /\ StoredIssue.details = None
    /\ "tooltip" \notin DOMAIN SentIssue.d

\* the value is None or an integer of at least 1
AbsentOrPositive(x) == x = None \/ (x.t = "int" /\ x.n >= 1)

\* C23: every Issue stored in a Project has a line and a column that are
\* each None or an integer of at least 1.
C23_LineColumnPositive ==
    \A p \in DOMAIN path_to_project_map :
        path_to_project_map[p].issues.t = "list"
            => \A k \in 1..Len(path_to_project_map[p].issues.l) :
                  /\ AbsentOrPositive(path_to_project_map[p].issues.l[k].line)
                  /\ AbsentOrPositive(path_to_project_map[p].issues.l[k].column)

\* C24: a stop() on a listener that is not started leaves it not started;
\* when start() reaches its bind, the listener it found started has been
\* stopped in full (no socket, no accept thread, no flag, no readers
\* tracked); and a live accept thread belongs to the one socket of the
\* listener.
C24_StopIdempotentStartRestarts ==
    /\ (last_call.op = "stop" /\ last_call.noop /\ main_pc.at = "idle")
           => /\ socket = "none" /\ accept_thread = "none"
              /\ stop_event = "none" /\ connections = {}
    /\ main_pc.at = "bind"
           => /\ socket = "none" /\ accept_thread = "none"
              /\ stop_event = "none" /\ connections = {}
    /\ accept_thread \in {"test", "accept"} => socket \in {"open", "closed"}

\* C24 witness: start() was called on a started listener whose accept
\* thread had accepted a reader, and is about to bind again.
C24_Witness ==
    /\ main_pc.at = "bind"
    /\ last_call.restarted
    /\ \E i \in Readers : reader[i].pc \notin {"none", "backlog", "refused"}

\* cleanup_plugin has returned
TornDown == last_call.op = "cleanup" /\ main_pc.at = "idle"

\* C25: once cleanup_plugin has returned, handle_json does not run and the
\* project registry is empty.
C25_NothingRunsAfterTeardown ==
    TornDown => /\ handled = last_call.handled
                /\ path_to_project_map = <<>>

\* C26: the callback of a reader is never invoked after its stop_event was
\* set.
C26_StoppedReaderDeliversNothing ==
    \A i \in Readers : ~reader[i].late

\* C27: after every document, each managed buffer holds exactly the issues
\* of the registry whose path is the buffer's file (nothing when there are
\* none).
C27_BuffersMatchRegistry ==
    handled > 0
        => \A v \in DOMAIN view_to_manager_map :
              IF IssuesAt(file_name(v)) = {}
              THEN view_to_manager_map[v] = None
              ELSE view_to_manager_map[v] = PySet(IssuesAt(file_name(v)))

\* C28: a Timeout that has fired had its weak_self assigned when cancel()
\* ran, and is not in sTimeouts.
C28_TimeoutBookkeeping ==
    \A i \in Readers :
        timeouts[i].fired => (timeouts[i].weak_self /\ i \notin sTimeouts)

====
